---------------------------- MODULE Spec2Model ----------------------------
(***************************************************************************)
(* Model of analysis/02_score_discounting_data.ipynb: the batch driver     *)
(* that fits four discount functions to every raw discounting file, saves  *)
(* one figure per file and exports one long-format CSV per model.          *)
(*                                                                         *)
(* Python strings are sequences of one-character strings.  A DataFrame is  *)
(* the sequence of its rows, a list of DataFrames a sequence of those.     *)
(* The posterior sample of a fit is opaque: it is identified by the model, *)
(* the data file and the run of the cell that produced it.                 *)
(***************************************************************************)
EXTENDS Integers, Sequences, FiniteSets, TLC

\* ------------------------------------------------------------------ bounds
MaxFiles == 2
MaxRuns == 2
MaxFields == 6

NumModels == 4

\* ----------------------------------------------------------------- strings
sep == "/"
hyphen == "-"

root_data_folder == <<".",".","/","d","a","t","a","/","d","i","s","c","o","u","n","t","i","n","g","/">>
out_dir == <<"f","i","t","s","/">>
pdf_ext == <<".","p","d","f">>
underscore == <<"_">>

\* Base names of files that '*.txt' can match in the data folder.
F1 == <<"A","B","-","f","o","o","d","-","h","u","n","g","r","y","-","2","0","1","7","0","1","0","1","-","1","2","0","0",".","t","x","t">>
F2 == <<"A","B","-","f","o","o","d","-","h","u","n","g","r","y","-","2","0","1","7","0","1","0","2","-","0","9","3","0",".","t","x","t">>
F3 == <<"C","D","-","m","o","n","e","y","-","f","e","d","-","1","-","2",".","t","x","t">>
F4 == <<"A","B","-","f","o","o","d","-","h","u","n","g","r","y","-","1",".","t","x","t">>
F5 == <<"A","B","-","f","o","o","d","-","v","e","r","y","-","h","u","n","g","r","y","-","1","-","2",".","t","x","t">>
F6 == <<"n","o","t","e","s",".","t","x","t">>

Basenames == {F1, F2, F3, F4, F5, F6}

\* files = glob(root_data_folder + '*.txt'): every match carries the folder
\* prefix, and a directory listing names no file twice.
GlobPool == {root_data_folder \o b : b \in Basenames}

DistinctSeqs(S, n) ==
    {s \in UNION {[1..k -> S] : k \in 0..n} :
        \A a, b \in DOMAIN s : a # b => s[a] # s[b]}

\* Fields and directories the parser is called on in isolation.
AB == <<"A","B">>
food == <<"f","o","o","d">>
hungry == <<"h","u","n","g","r","y">>
date == <<"2","0","1","7","0","1","0","1">>
time == <<"1","2","0","0",".","t","x","t">>
ExampleFields == <<AB, food, hungry, date, time>>
FieldPool == {<<>>, AB, hungry}
DirPool == {<<>>, root_data_folder,
            <<"m","y","-","d","a","t","a","/","r","u","n","-","1","/">>}

RECURSIVE Join(_)
Join(fields) ==
    IF Len(fields) = 0 THEN <<>>
    ELSE IF Len(fields) = 1 THEN fields[1]
    ELSE fields[1] \o <<hyphen>> \o Join(Tail(fields))

MkPath(dir, fields) == dir \o Join(fields)

RECURSIVE Count(_, _)
Count(s, c) ==
    IF s = <<>> THEN 0
    ELSE (IF Head(s) = c THEN 1 ELSE 0) + Count(Tail(s), c)

\* ------------------------------------------------------- library functions
\* str.rfind(c) + 1: the 1-based position of the last c in s, 0 when absent.
RECURSIVE rfind1(_, _, _)
rfind1(s, c, k) ==
    IF k = 0 THEN 0
    ELSE IF s[k] = c THEN k
    ELSE rfind1(s, c, k - 1)

\* str.rstrip(c)
RECURSIVE rstrip(_, _)
rstrip(s, c) ==
    IF s # <<>> /\ s[Len(s)] = c THEN rstrip(SubSeq(s, 1, Len(s) - 1), c) ELSE s

\* A mutant of os_path_split: cuts at the first separator instead of the last.
os_path_split_first(p) ==
    LET idx == IF \E k \in 1..Len(p) : p[k] = sep
               THEN CHOOSE k \in 1..Len(p) :
                        p[k] = sep /\ \A j \in 1..(k - 1) : p[j] # sep
               ELSE 0
    IN  <<SubSeq(p, 1, idx), SubSeq(p, idx + 1, Len(p))>>

\* os.path.split (posixpath): head is everything up to the last slash, with
\* trailing slashes stripped unless it is all slashes; tail is the rest.
os_path_split(p) ==
    LET idx  == rfind1(p, sep, Len(p))
        head == SubSeq(p, 1, idx)
        tail == SubSeq(p, idx + 1, Len(p))
    IN  <<IF rstrip(head, sep) # <<>> THEN rstrip(head, sep) ELSE head, tail>>

\* str.split(c): the fields between the separators, empty fields kept.
RECURSIVE SplitAcc(_, _, _, _, _)
SplitAcc(s, c, k, cur, acc) ==
    IF k > Len(s) THEN Append(acc, cur)
    ELSE IF s[k] = c THEN SplitAcc(s, c, k + 1, <<>>, Append(acc, cur))
    ELSE SplitAcc(s, c, k + 1, Append(cur, s[k]), acc)

split(s, c) == SplitAcc(s, c, 1, <<>>, <<>>)

\* ----------------------------------------------------------- parse_filename
\* A mutant of parse_raises: extra fields are tolerated.
parse_raises_short(fname) ==
    Len(split(os_path_split(fname)[2], hyphen)) < 5

\* The five-name unpacking raises ValueError unless there are five fields.
parse_raises(fname) ==
    Len(split(os_path_split(fname)[2], hyphen)) # 5

parse_filename(fname) ==
    LET file  == os_path_split(fname)[2]
        parts == split(file, hyphen)
    IN  <<parts[1], parts[2], parts[3]>>

\* ------------------------------------------------------------------ driver
model_list == <<"Exponential", "Hyperbolic", "ModifiedRachlin", "Hyperboloid">>

Unbound == <<"<unbound>">>
NoData == [tag |-> "None", file |-> <<>>]
NoTrace == [tag |-> "None", model |-> "", file |-> <<>>, run |-> 0]
NoModel == [tag |-> "None", name |-> "", data |-> NoData, trace |-> NoTrace]
EmptyDisk == [x \in {} |-> <<>>]

read_csv(fname) == [tag |-> "DataFrame", file |-> fname]

model_build_func(name, data) ==
    [tag |-> "Model", name |-> name, data |-> data, trace |-> NoTrace]

fit(model, r) ==
    [model EXCEPT !.trace = [tag |-> "trace", model |-> model.name,
                             file |-> model.data.file, run |-> r]]

VARIABLES files, run, pc, err, i, fname, initials, commodity, condition,
          data, models, m, fit_data, df_comp_WAIC, figures, csv_files,
          written, log, call_dir, call_fields, call_pc, call_ret

driver_vars == <<files, run, pc, err, i, fname, initials, commodity, condition,
                 data, models, m, fit_data, df_comp_WAIC, figures, csv_files,
                 written, log>>
call_vars == <<call_dir, call_fields, call_pc, call_ret>>
vars == <<driver_vars, call_vars>>

Event(op, k) == [op |-> op, m |-> k]

\* fit_data = [[], [], [], []]
EmptyFitData == [k \in 1..NumModels |-> <<>>]

InitDriver ==
    /\ run = 0
    /\ pc = "idle"
    /\ err = ""
    /\ i = 0
    /\ fname = Unbound
    /\ initials = Unbound
    /\ commodity = Unbound
    /\ condition = Unbound
    /\ data = NoData
    /\ models = [k \in 1..NumModels |-> NoModel]
    /\ m = 0
    /\ fit_data = EmptyFitData
    /\ df_comp_WAIC = [k \in 1..NumModels |-> NoTrace]
    /\ figures = EmptyDisk
    /\ csv_files = EmptyDisk
    /\ written = <<>>
    /\ log = <<>>

InitCallOff ==
    /\ call_dir = <<>>
    /\ call_fields = <<>>
    /\ call_pc = "off"
    /\ call_ret = <<>>

Init ==
    /\ files \in DistinctSeqs(GlobPool, MaxFiles)
    /\ InitDriver
    /\ InitCallOff

\* Running the driver cell: the accumulating lists start empty; every other
\* name of the kernel keeps the value a previous run left in it.
RunCell ==
    /\ pc \in {"idle", "done", "error"}
    /\ run < MaxRuns
    /\ run' = run + 1
    /\ fit_data' = EmptyFitData
    /\ i' = 0
    /\ err' = ""
    /\ written' = <<>>
    /\ log' = <<>>
    /\ pc' = "for"
    /\ UNCHANGED <<files, fname, initials, commodity, condition, data, models,
                   m, df_comp_WAIC, figures, csv_files, call_vars>>

\* for i, fname in enumerate(files): here i counts the files started, one
\* more than Python's index of the current file.
ForNext ==
    /\ pc = "for"
    /\ IF i < Len(files)
       THEN /\ i' = i + 1
            /\ fname' = files[i + 1]
            /\ log' = <<>>
            /\ pc' = "parse"
            /\ m' = m
       ELSE /\ pc' = "export"
            /\ m' = 1
            /\ UNCHANGED <<i, fname, log>>
    /\ UNCHANGED <<files, run, err, initials, commodity, condition, data, models,
                   fit_data, df_comp_WAIC, figures, csv_files, written, call_vars>>

Parse ==
    /\ pc = "parse"
    /\ log' = Append(log, Event("parse_filename", 0))
    /\ IF parse_raises(fname)
       THEN /\ pc' = "error"
            /\ err' = "ValueError: unpack"
            /\ UNCHANGED <<initials, commodity, condition>>
       ELSE /\ initials' = parse_filename(fname)[1]
            /\ commodity' = parse_filename(fname)[2]
            /\ condition' = parse_filename(fname)[3]
            /\ pc' = "load"
            /\ err' = err
    /\ UNCHANGED <<files, run, i, fname, data, models, m, fit_data, df_comp_WAIC,
                   figures, csv_files, written, call_vars>>

Load ==
    /\ pc = "load"
    /\ data' = read_csv(fname)
    /\ models' = [k \in 1..NumModels |-> NoModel]
    /\ m' = 1
    /\ log' = Append(log, Event("read_csv", 0))
    /\ pc' = "build"
    /\ UNCHANGED <<files, run, err, i, fname, initials, commodity, condition,
                   fit_data, df_comp_WAIC, figures, csv_files, written, call_vars>>

Build ==
    /\ pc = "build"
    /\ models' = [models EXCEPT ![m] = model_build_func(model_list[m], data)]
    /\ log' = Append(log, Event("build", m))
    /\ pc' = "fit"
    /\ UNCHANGED <<files, run, err, i, fname, initials, commodity, condition,
                   data, m, fit_data, df_comp_WAIC, figures, csv_files, written,
                   call_vars>>

Fit ==
    /\ pc = "fit"
    /\ models' = [models EXCEPT ![m] = fit(@, run)]
    /\ log' = Append(log, Event("fit", m))
    /\ pc' = "append"
    /\ UNCHANGED <<files, run, err, i, fname, initials, commodity, condition,
                   data, m, fit_data, df_comp_WAIC, figures, csv_files, written,
                   call_vars>>

info(k) ==
    [id |-> initials, commodity |-> commodity, condition |-> condition,
     model |-> model_list[k], metrics |-> models[k].trace]

\* A mutant of append_row: every row lands in the first list.
append_row_first(fd, k, row) == [fd EXCEPT ![1] = Append(@, <<row>>)]

\* fit_data[m].append(row), row a one-row DataFrame
append_row(fd, k, row) == [fd EXCEPT ![k] = Append(@, <<row>>)]

\* A mutant of after_append: the model loop ends one model early.
after_append_early(k) == IF k < NumModels - 1 THEN "build" ELSE "compare"

\* Where control goes after the body of the model loop for index k.
after_append(k) == IF k < NumModels THEN "build" ELSE "compare"

AppendRow ==
    /\ pc = "append"
    /\ fit_data' = append_row(fit_data, m, info(m))
    /\ log' = Append(log, Event("append", m))
    /\ pc' = after_append(m)
    /\ m' = IF after_append(m) = "build" THEN m + 1 ELSE m
    /\ UNCHANGED <<files, run, err, i, fname, initials, commodity, condition,
                   data, models, df_comp_WAIC, figures, csv_files, written,
                   call_vars>>

\* pm.compare reads models[0..3].model and .trace: None has neither.
Compare ==
    /\ pc = "compare"
    /\ log' = Append(log, Event("compare", 0))
    /\ IF \E k \in 1..NumModels : models[k].tag = "None"
       THEN /\ pc' = "error"
            /\ err' = "AttributeError"
            /\ UNCHANGED df_comp_WAIC
       ELSE /\ df_comp_WAIC' = [k \in 1..NumModels |-> models[k].trace]
            /\ pc' = "savefig"
            /\ err' = err
    /\ UNCHANGED <<files, run, i, fname, initials, commodity, condition, data,
                   models, m, fit_data, figures, csv_files, written, call_vars>>

savename == out_dir \o initials \o underscore \o commodity \o underscore
                \o condition \o pdf_ext

\* Writing a file: creates it or replaces its content.
write(disk, name, content) ==
    [x \in DOMAIN disk \cup {name} |-> IF x = name THEN content ELSE disk[x]]

Savefig ==
    /\ pc = "savefig"
    /\ figures' = write(figures, savename, [file |-> fname, run |-> run])
    /\ log' = Append(log, Event("savefig", 0))
    /\ pc' = "for"
    /\ UNCHANGED <<files, run, err, i, fname, initials, commodity, condition,
                   data, models, m, fit_data, df_comp_WAIC, csv_files, written,
                   call_vars>>

\* A mutant of concat_raises: an empty list concatenates to an empty table.
concat_never_raises(frames) == FALSE

\* pd.concat raises ValueError("No objects to concatenate") on an empty list.
concat_raises(frames) == frames = <<>>

RECURSIVE concat(_)
concat(frames) ==
    IF frames = <<>> THEN <<>> ELSE Head(frames) \o concat(Tail(frames))

csv_name(model_name) == <<"parameter_estimation_", model_name, ".csv">>

\* A mutant of export_name: the export loop walks the models backwards.
export_name_reversed(k) == model_list[NumModels + 1 - k]

\* The model name the export loop pairs with index k.
export_name(k) == model_list[k]

\* A mutant of to_csv: the file is opened in append mode.
to_csv_append(disk, name, table) ==
    write(disk, name, (IF name \in DOMAIN disk THEN disk[name] ELSE <<>>) \o table)

to_csv(disk, name, table) == write(disk, name, table)

Export ==
    /\ pc = "export"
    /\ IF concat_raises(fit_data[m])
       THEN /\ pc' = "error"
            /\ err' = "ValueError: concat"
            /\ UNCHANGED <<fit_data, csv_files, written, m>>
       ELSE /\ fit_data' = [fit_data EXCEPT ![m] = concat(@)]
            /\ csv_files' = to_csv(csv_files, csv_name(export_name(m)),
                                   concat(fit_data[m]))
            /\ written' = Append(written, csv_name(export_name(m)))
            /\ IF m < NumModels
               THEN m' = m + 1 /\ pc' = "export"
               ELSE m' = m /\ pc' = "done"
            /\ err' = err
    /\ UNCHANGED <<files, run, i, fname, initials, commodity, condition, data,
                   models, df_comp_WAIC, figures, log, call_vars>>

Next ==
    \/ RunCell
    \/ ForNext
    \/ Parse
    \/ Load
    \/ Build
    \/ Fit
    \/ AppendRow
    \/ Compare
    \/ Savefig
    \/ Export

Spec == Init /\ [][Next]_vars

\* ------------------------------------------- parse_filename called on its own
InitParse ==
    /\ files = <<>>
    /\ InitDriver
    /\ call_dir \in DirPool
    /\ call_fields \in
          UNION {[1..k -> FieldPool] : k \in 1..MaxFields} \cup {ExampleFields}
    /\ call_pc = "call"
    /\ call_ret = <<>>

CallReturns ==
    /\ call_pc = "call"
    /\ ~parse_raises(MkPath(call_dir, call_fields))
    /\ call_ret' = parse_filename(MkPath(call_dir, call_fields))
    /\ call_pc' = "returned"
    /\ UNCHANGED <<driver_vars, call_dir, call_fields>>

CallRaises ==
    /\ call_pc = "call"
    /\ parse_raises(MkPath(call_dir, call_fields))
    /\ call_pc' = "raised"
    /\ UNCHANGED <<driver_vars, call_dir, call_fields, call_ret>>

NextParse ==
    \/ CallReturns
    \/ CallRaises

SpecParse == InitParse /\ [][NextParse]_vars

\* ------------------------------------------------------------------ claims
Csv(k) == csv_files[csv_name(model_list[k])]
HasCsv(k) == csv_name(model_list[k]) \in DOMAIN csv_files
Triple(r) == <<r.id, r.commodity, r.condition>>

\* The base name of a globbed path has five hyphen-separated fields exactly
\* when the path holds four hyphens (the data folder's name holds none).
Malformed(path) == Count(path, hyphen) # 4
FirstMalformed(j) ==
    /\ j \in 1..Len(files)
    /\ Malformed(files[j])
    /\ \A h \in 1..(j - 1) : ~Malformed(files[h])

\* C1: when the driver finishes, the table exported for each of the four
\* models has as many rows as there are input files; and at the top of the
\* file loop, after i files have been fully processed, each fit_data[m]
\* holds exactly i rows.
C1_RowCount ==
    /\ pc = "done" =>
         \A k \in 1..NumModels : HasCsv(k) /\ Len(Csv(k)) = Len(files)
    /\ pc = "for" => \A k \in 1..NumModels : Len(fit_data[k]) = i
    /\ pc \in {"export", "done"} =>
         \A k \in 1..NumModels : Len(fit_data[k]) = Len(files)

C1_Witness ==
    /\ pc = "done"
    /\ Len(files) >= 2
    /\ \A k \in 1..NumModels : Len(Csv(k)) = Len(files)

\* C2: no two rows of one exported CSV carry the same (id, commodity,
\* condition) values.
C2_OneRowPerTriple ==
    pc = "done" =>
      \A k \in 1..NumModels :
        \A a, b \in 1..Len(Csv(k)) :
          a # b => Triple(Csv(k)[a]) # Triple(Csv(k)[b])

\* C3: after the run the number of distinct saved figure files equals the
\* number of input files.
C3_OneFigurePerFile ==
    pc = "done" => Cardinality(DOMAIN figures) = Len(files)

\* C4: on a path whose base name has exactly five hyphen-separated fields,
\* parse_filename returns the first three fields in order, whatever the
\* directory part; "AB-food-hungry-20170101-1200.txt" gives
\* ("AB", "food", "hungry").
C4_ParseFirstThree ==
    /\ Len(call_fields) = 5 =>
         /\ call_pc # "raised"
         /\ call_pc = "returned" =>
              call_ret = <<call_fields[1], call_fields[2], call_fields[3]>>
    /\ (call_pc = "returned" /\ call_dir = <<>> /\ call_fields = ExampleFields) =>
         call_ret = <<AB, food, hungry>>

C4_Witness ==
    /\ call_pc = "returned"
    /\ Count(call_dir, hyphen) > 0
    /\ Len(call_fields) = 5
    /\ call_fields[1] # call_fields[3]
    /\ call_ret = <<call_fields[1], call_fields[2], call_fields[3]>>

\* C5: when the base name of an input file does not split into exactly five
\* fields, the run halts in an error at the parse of the first such file:
\* its data is not loaded, no model is built for it, no later file is
\* started, and no CSV is written although the rows of the earlier files
\* have been accumulated.
C5_MalformedHalts ==
    \A j \in 1..Len(files) :
      FirstMalformed(j) =>
        /\ i <= j
        /\ pc # "done"
        /\ written = <<>>
        /\ csv_files = EmptyDisk
        /\ i = j => pc \in {"parse", "error"}
        /\ data.file # files[j]
        /\ \A k \in 1..NumModels : models[k].data.file # files[j]
        /\ pc = "error" =>
             /\ i = j
             /\ err = "ValueError: unpack"
             /\ \A k \in 1..NumModels : Len(fit_data[k]) = j - 1

C5_Witness ==
    /\ pc = "error"
    /\ err = "ValueError: unpack"
    /\ i = 2
    /\ FirstMalformed(2)
    /\ \A k \in 1..NumModels : Len(fit_data[k]) = 1
    /\ csv_files = EmptyDisk

\* C6: a CSV is written only after the last input file has been fully
\* processed; a finished run has written exactly one CSV per model name, in
\* the order of model_list; and the CSV named after model M holds, file by
\* file, the rows of the fits of model M.
C6_ExportAtEnd ==
    /\ written # <<>> => pc \in {"export", "done"} /\ i = Len(files)
    /\ pc = "done" =>
         /\ written = [k \in 1..NumModels |-> csv_name(model_list[k])]
         /\ DOMAIN csv_files = {csv_name(model_list[k]) : k \in 1..NumModels}
         /\ \A k \in 1..NumModels :
              /\ Len(Csv(k)) = Len(files)
              /\ \A j \in 1..Len(Csv(k)) :
                   /\ Csv(k)[j].model = model_list[k]
                   /\ Csv(k)[j].metrics.model = model_list[k]
                   /\ Csv(k)[j].metrics.file = files[j]

C6_Witness ==
    /\ pc = "done"
    /\ Len(files) >= 1
    /\ Len(written) = NumModels
    /\ Csv(3)[1].model = "ModifiedRachlin"

ExpectedLog ==
    <<Event("parse_filename", 0), Event("read_csv", 0)>>
    \o <<Event("build", 1), Event("fit", 1), Event("append", 1)>>
    \o <<Event("build", 2), Event("fit", 2), Event("append", 2)>>
    \o <<Event("build", 3), Event("fit", 3), Event("append", 3)>>
    \o <<Event("build", 4), Event("fit", 4), Event("append", 4)>>
    \o <<Event("compare", 0), Event("savefig", 0)>>

FittedHere(k) ==
    /\ models[k].tag = "Model"
    /\ models[k].name = model_list[k]
    /\ models[k].trace = [tag |-> "trace", model |-> model_list[k],
                          file |-> files[i], run |-> run]

\* C7: within one file the driver parses the name, loads the data, builds
\* and fits each of the four models once, compares, then saves the figure;
\* the comparison starts only when all four models have been fitted to this
\* file in this iteration, and compares exactly those four fits.
C7_StepOrder ==
    /\ Len(log) <= Len(ExpectedLog)
    /\ log = SubSeq(ExpectedLog, 1, Len(log))
    /\ (pc = "for" /\ i > 0) => log = ExpectedLog
    /\ pc = "compare" => \A k \in 1..NumModels : FittedHere(k)
    /\ pc = "savefig" =>
         \A k \in 1..NumModels :
           /\ FittedHere(k)
           /\ df_comp_WAIC[k] = models[k].trace

C7_Witness ==
    /\ pc = "savefig"
    /\ i = 2
    /\ \A k \in 1..NumModels : df_comp_WAIC[k].file = files[2]

\* C8: after any number of runs of the driver cell on the same files, each
\* CSV holds only the rows of the latest run, as many as there are input
\* files; the accumulating lists are empty when a run starts.
C8_RerunOverwrites ==
    /\ pc = "done" =>
         \A k \in 1..NumModels :
           /\ HasCsv(k)
           /\ Len(Csv(k)) = Len(files)
           /\ \A j \in 1..Len(Csv(k)) : Csv(k)[j].metrics.run = run
    /\ (pc = "for" /\ i = 0) => fit_data = EmptyFitData

C8_Witness ==
    /\ pc = "done"
    /\ run >= 2
    /\ Len(files) >= 1
    /\ \A k \in 1..NumModels : Csv(k)[1].metrics.run = run

\* C10: with no input file the file loop runs zero times and the export
\* fails at the first model: the run ends in an error and no CSV is written.
C10_EmptyInputFails ==
    Len(files) = 0 =>
      /\ i = 0
      /\ pc \in {"idle", "for", "export", "error"}
      /\ figures = EmptyDisk
      /\ csv_files = EmptyDisk
      /\ written = <<>>
      /\ pc = "error" => (err = "ValueError: concat" /\ m = 1)

C10_Witness ==
    /\ files = <<>>
    /\ pc = "error"
    /\ err = "ValueError: concat"
    /\ csv_files = EmptyDisk


=============================================================================
